---------------------------- MODULE Spec2Model ----------------------------
(***************************************************************************)
(* A model of RealEstateDataManager (src/utils.py): the load-once store    *)
(* of seven JSON documents, its memoization cache, refresh_data, and the   *)
(* query methods that scan the loaded documents.                           *)
(*                                                                         *)
(* Encoding of Python values:                                              *)
(*   str            a tuple of one-letter strings, <<"a","B">>             *)
(*   None           None where a str is expected, NoneDict where a dict is *)
(*   dict           a record holding exactly the keys that are present     *)
(*   list           a tuple                                                *)
(*   Optional[int]  the field is absent from the record when it is None    *)
(*   a call         [ok |-> TRUE, val |-> v] when it returns v, and        *)
(*                  [ok |-> FALSE, exc |-> e] when it raises e             *)
(***************************************************************************)
EXTENDS Integers, Sequences, FiniteSets, TLC

VARIABLES
    disk,       \* path -> what the file system holds at that path
    cache,      \* self._cache: path -> parsed document
    docs,       \* attribute name -> document (self.properties, self.agents, ...)
    lastOp,     \* the call that produced this state, with its arguments
    ret,        \* how that call ended
    lastRead,   \* the paths that call opened on disk
    edits       \* number of file changes so far

vars == <<disk, cache, docs, lastOp, ret, lastRead, edits>>

\* ------------------------------------------------------------------ bounds

MaxEdits == 2
MaxStale == 1
MaxRecords == 2

\* ------------------------------------------------------------ Python values

None == <<"None">>
NoneDict == [None |-> TRUE]
EmptyDoc == [k \in {} |-> k]
Unset == [unset |-> TRUE]

Ok(v) == [ok |-> TRUE, val |-> v]
Raise(e) == [ok |-> FALSE, exc |-> e]

\* ---------------------------------------------------------------- the files

Attrs == <<"properties", "agents", "market", "clients", "amenities",
           "transactions", "areas">>

AttrSet == {Attrs[i] : i \in 1..Len(Attrs)}

PathOf(attr) ==
    CASE attr = "properties"   -> "properties/active_listings.json"
      [] attr = "agents"       -> "agents/agent_profiles.json"
      [] attr = "market"       -> "market/market_analytics.json"
      [] attr = "clients"      -> "clients/client_database.json"
      [] attr = "amenities"    -> "amenities/local_amenities.json"
      [] attr = "transactions" -> "transactions/recent_sales.json"
      [] attr = "areas"        -> "areas/city_overview.json"

Paths == {PathOf(a) : a \in AttrSet}

AttrOf(path) == CHOOSE a \in AttrSet : PathOf(a) = path


\* ------------------------------------------------------------------ strings

LowerChar(c) ==
    CASE c = "A" -> "a" [] c = "B" -> "b" [] c = "C" -> "c" [] c = "D" -> "d"
      [] c = "E" -> "e" [] c = "F" -> "f" [] c = "G" -> "g" [] c = "H" -> "h"
      [] c = "I" -> "i" [] c = "J" -> "j" [] c = "K" -> "k" [] c = "L" -> "l"
      [] c = "M" -> "m" [] c = "N" -> "n" [] c = "O" -> "o" [] c = "P" -> "p"
      [] c = "Q" -> "q" [] c = "R" -> "r" [] c = "S" -> "s" [] c = "T" -> "t"
      [] c = "U" -> "u" [] c = "V" -> "v" [] c = "W" -> "w" [] c = "X" -> "x"
      [] c = "Y" -> "y" [] c = "Z" -> "z" [] OTHER -> c

\* str.lower()
Lower(s) == [i \in 1..Len(s) |-> LowerChar(s[i])]

\* needle in haystack, for two str
IsSubstr(needle, hay) ==
    \E i \in 0..(Len(hay) - Len(needle)) :
        \A j \in 1..Len(needle) : hay[i + j] = needle[j]

RECURSIVE Join(_, _)
\* sep.join(parts)
Join(sep, parts) ==
    IF parts = <<>> THEN <<>>
    ELSE IF Len(parts) = 1 THEN parts[1]
    ELSE parts[1] \o sep \o Join(sep, Tail(parts))

\* dict.get(key, default) and "key in dict"
Has(d, k) == k \in DOMAIN d
Get(d, k, default) == IF k \in DOMAIN d THEN d[k] ELSE default

\* the truth value of an Optional[int], of a list or str, of an Optional[dict]
TruthyNum(d, k) == Has(d, k) /\ d[k] # 0
TruthySeq(d, k) == Has(d, k) /\ d[k] # <<>>
Falsy(d) == d = NoneDict \/ d = EmptyDoc

Elems(list) == {list[i] : i \in 1..Len(list)}

\* ------------------------------------------------------- loading the files

\* A loader without the cache lookup of lines 46-47: it opens the file on
\* every call.
LoadJsonFileAlwaysReads(c, d, filepath) ==
    CASE d[filepath].kind = "json" ->
             [cache |-> (filepath :> d[filepath].data) @@ c,
              ret |-> Ok(d[filepath].data), read |-> {filepath}]
      [] d[filepath].kind \in {"missing", "malformed"} ->
             [cache |-> c, ret |-> Ok(EmptyDoc), read |-> {filepath}]
      [] d[filepath].kind = "undecodable" ->
             [cache |-> c, ret |-> Raise("UnicodeDecodeError"), read |-> {filepath}]

\* _load_json_file(filepath) on cache c and file system d: the cache after the
\* call, how the call ended, and whether the file was opened.
LoadJsonFile(c, d, filepath) ==
    IF filepath \in DOMAIN c
    THEN [cache |-> c, ret |-> Ok(c[filepath]), read |-> {}]
    ELSE CASE d[filepath].kind = "json" ->
                  [cache |-> (filepath :> d[filepath].data) @@ c,
                   ret |-> Ok(d[filepath].data), read |-> {filepath}]
           [] d[filepath].kind \in {"missing", "malformed"} ->
                  [cache |-> c, ret |-> Ok(EmptyDoc), read |-> {filepath}]
           [] d[filepath].kind = "undecodable" ->
                  [cache |-> c, ret |-> Raise("UnicodeDecodeError"),
                   read |-> {filepath}]

RECURSIVE LoadAllFrom(_, _, _, _, _)
\* _load_all_data() from its i-th assignment on: each attribute is assigned in
\* turn, and an exception of a load leaves the later attributes as they were.
LoadAllFrom(i, c, ds, d, read) ==
    IF i > Len(Attrs)
    THEN [cache |-> c, docs |-> ds, ret |-> Ok(None), read |-> read]
    ELSE LET r == LoadJsonFile(c, d, PathOf(Attrs[i]))
         IN  IF r.ret.ok
             THEN LoadAllFrom(i + 1, r.cache,
                              [ds EXCEPT ![Attrs[i]] = r.ret.val], d,
                              read \cup r.read)
             ELSE [cache |-> r.cache, docs |-> ds, ret |-> r.ret,
                   read |-> read \cup r.read]

LoadAllData(c, ds, d) == LoadAllFrom(1, c, ds, d, {})

\* refresh_data(): clear the cache, then load everything
RefreshResult(c, ds, d) == LoadAllData(EmptyDoc, ds, d)

\* RealEstateDataManager(data_dir) on file system d
Construct(d) == LoadAllData(EmptyDoc, [a \in AttrSet |-> Unset], d)

\* Whether there is a store to call: a constructor that raised returned none.
Alive == ~(lastOp.name = "__init__" /\ ~ret.ok)


\* ------------------------------------------------ the contents of the files

IdP1 == <<"p", "1">>
IdP2 == <<"p", "2">>
IdG1 == <<"g", "1">>
IdG2 == <<"g", "2">>
IdC1 == <<"c", "1">>
IdC2 == <<"c", "2">>
Buyer == <<"B", "u", "y", "e", "r">>
Seller == <<"S", "e", "l", "l", "e", "r">>
Dn == <<"D", "n">>
dn == <<"d", "n">>
Up == <<"U", "p">>
House == <<"h", "s">>
Condo == <<"c", "o">>
Garage == <<"2", " ", "G", "a", "r">>
gar == <<"g", "a", "r">>
Pool == <<"P", "o", "o", "l">>

JList(l) == [list |-> l]
JOther == [other |-> TRUE]

\* The records a file of each document may hold, sparse ones among them.
Pieces(attr) ==
    CASE attr = "properties" ->
             <<[id |-> IdP1, area |-> Dn, agent_id |-> IdG1, price |-> 2,
                features |-> <<Garage>>, property_type |-> House],
               [id |-> IdP1],
               [id |-> IdP2, area |-> dn, price |-> 1],
               [area |-> Up, agent_id |-> IdG1]>>
      [] attr = "agents" ->
             <<[id |-> IdG1, name |-> <<"A", "n", "n">>,
                specializations |-> <<Condo>>,
                recent_sales |-> <<[sale_price |-> 2, days_on_market |-> 3],
                                   [sale_price |-> 4]>>,
                client_testimonials |-> <<[rating |-> 5], [rating |-> 4]>>],
               [id |-> IdG1],
               [name |-> <<"B", "o">>, bio |-> gar]>>
      [] attr = "clients" ->
             <<[id |-> IdC1, type |-> Buyer, agent_id |-> IdG1,
                preferences |-> [budget_range |-> [min |-> 1, max |-> 2],
                                 desired_areas |-> <<Dn>>,
                                 property_type |-> House]],
               [id |-> IdC1, type |-> Seller,
                preferences |-> [desired_areas |-> <<Up>>]],
               [id |-> IdC2, type |-> Buyer],
               [id |-> IdC2, type |-> Buyer,
                preferences |-> [budget_range |-> [max |-> 0],
                                 desired_areas |-> <<>>]]>>
      [] attr = "transactions" ->
             <<[area |-> Dn, agent_id |-> IdG1, sale_price |-> 4,
                days_on_market |-> 2, price_per_sqft |-> 1],
               [sale_price |-> 2]>>
      [] attr = "areas" ->
             <<[name |-> Dn, population |-> 1],
               [name |-> dn],
               [population |-> 2]>>
      [] attr = "market" ->
             <<[area |-> Dn, metrics |-> [median_price |-> 3]],
               [area |-> Up, metrics |-> [median_price |-> 5]]>>
      [] attr = "amenities" ->
             <<[kind |-> "school", rec |-> [name |-> <<"E", "l">>]],
               [kind |-> "park", rec |-> [name |-> <<"P", "k">>, area |-> Dn]],
               [kind |-> "shop", rec |-> [name |-> <<"M", "l">>]],
               [kind |-> "hours"]>>

\* The listings the filters are tried on: each numeric field present and
\* absent, areas that differ in case only, features to search in.
FilterListings ==
    <<[id |-> IdP1, area |-> Dn, agent_id |-> IdG1, price |-> 2,
       features |-> <<Garage>>, property_type |-> House],
      [id |-> IdP2, area |-> dn, price |-> 1],
      [id |-> IdP1],
      [price |-> 0],
      [bedrooms |-> 1, bathrooms |-> 1, square_feet |-> 1],
      [price |-> 3, bedrooms |-> 2, bathrooms |-> 2, square_feet |-> 2,
       area |-> Up, property_type |-> Condo, features |-> <<Pool, Garage>>],
      [area |-> Dn]>>

\* The records of attribute attr that the stores of a family are built from
PiecesIn(family, attr) ==
    IF family = "filter" /\ attr = "properties" THEN FilterListings
    ELSE IF family = "filter" /\ attr # "clients" THEN <<>>
    ELSE IF family = "lookup"
            /\ attr \notin {"properties", "agents", "clients", "areas"}
    THEN <<>>
    ELSE Pieces(attr)

RootKey(attr) ==
    CASE attr = "properties"   -> "active_listings"
      [] attr = "agents"       -> "agents"
      [] attr = "clients"      -> "clients"
      [] attr = "transactions" -> "recent_sales"
      [] attr = "areas"        -> "areas"

OfKind(ps, kind) ==
    LET sel == SelectSeq(ps, LAMBDA p : p.kind = kind)
    IN  [i \in 1..Len(sel) |-> sel[i].rec]

\* The document of attribute attr that holds the records ps, in the layout of
\* the data files.
DocOf(attr, ps) ==
    CASE attr = "market" ->
             [market_overview |-> [listings |-> Len(ps)],
              area_performance |->
                  [a \in {ps[i].area : i \in 1..Len(ps)} |->
                      (CHOOSE p \in Elems(ps) : p.area = a).metrics]]
      [] attr = "amenities" ->
             [schools |-> [elementary_schools |-> OfKind(ps, "school")],
              parks_and_recreation |-> [parks |-> OfKind(ps, "park")],
              shopping |->
                  IF \E i \in 1..Len(ps) : ps[i].kind = "hours"
                  THEN [malls |-> JList(OfKind(ps, "shop")), hours |-> JOther]
                  ELSE [malls |-> JList(OfKind(ps, "shop"))]]
      [] attr = "areas" ->
             [areas |-> ps, city_name |-> <<"S", "p">>]
      [] OTHER -> (RootKey(attr) :> ps)

Missing == [kind |-> "missing"]
Malformed == [kind |-> "malformed"]
Undecodable == [kind |-> "undecodable"]
Json(d) == [kind |-> "json", data |-> d]

\* What a path may hold in the life of a store: no file, a text that is not
\* JSON, bytes that are not UTF-8, or one of two versions of the document.
FileKinds == {"missing", "malformed", "undecodable", "v1", "v2"}

FileFor(attr, kind) ==
    CASE kind = "missing"     -> Missing
      [] kind = "malformed"   -> Malformed
      [] kind = "undecodable" -> Undecodable
      [] kind = "v1" -> Json(DocOf(attr, <<Pieces(attr)[1]>>))
      [] kind = "v2" -> Json(DocOf(attr, <<Pieces(attr)[2], Pieces(attr)[1]>>))

\* The file system on which every file holds its first version
HealthyDisk == [p \in Paths |-> FileFor(AttrOf(p), "v1")]

\* The file systems a store is constructed on: the healthy one, and each one
\* that differs from it in one file.
LifecycleDisks ==
    {[HealthyDisk EXCEPT ![PathOf(a)] = FileFor(a, k)] :
        a \in AttrSet, k \in FileKinds}

\* ---------------------------------------------------------- the queries

SetMin(S) == CHOOSE i \in S : \A j \in S : i <= j

RECURSIVE Sum(_, _, _)
\* sum(rec.get(key, 0) for rec in list)
Sum(list, key, i) ==
    IF i > Len(list) THEN 0 ELSE Get(list[i], key, 0) + Sum(list, key, i + 1)

\* a / b of Python, kept as a fraction
Div(a, b) == [num |-> a, den |-> b]

\* rec.get("area", "").lower() == area.lower()
AreaEquals(rec, area) == Lower(Get(rec, "area", <<>>)) = Lower(area)

\* [rec for rec in list if rec.get("area", "").lower() == area.lower()]:
\* area.lower() is evaluated for each record, and raises when area is None.
InArea(list, area) ==
    IF list = <<>> THEN Ok(<<>>)
    ELSE IF area = None THEN Raise("AttributeError")
    ELSE Ok(SelectSeq(list, LAMBDA rec : AreaEquals(rec, area)))

\* Property operations

get_all_properties == Get(docs["properties"], "active_listings", <<>>)

\* A lookup that keeps scanning and returns the last record with the id
get_property_by_id_last(property_id) ==
    LET hits == {i \in 1..Len(get_all_properties) :
                    Get(get_all_properties[i], "id", None) = property_id}
    IN  IF hits = {} THEN NoneDict
        ELSE get_all_properties[CHOOSE i \in hits : \A j \in hits : j <= i]

get_property_by_id(property_id) ==
    LET hits == {i \in 1..Len(get_all_properties) :
                    Get(get_all_properties[i], "id", None) = property_id}
    IN  IF hits = {} THEN NoneDict ELSE get_all_properties[SetMin(hits)]

\* any(required.lower() in feature.lower() for feature in prop_features)
HasFeature(prop_features, required) ==
    \E j \in 1..Len(prop_features) :
        IsSubstr(Lower(required), Lower(prop_features[j]))

\* A range test that takes a missing field for 0 against the maximum too
RangeOkMissingIsZero(prop, filters, field, min_key, max_key) ==
    /\ ~(TruthyNum(filters, min_key) /\ Get(prop, field, 0) < filters[min_key])
    /\ ~(TruthyNum(filters, max_key) /\ Get(prop, field, 0) > filters[max_key])

\* if filters.min_x and prop.get(x, 0) < filters.min_x: return False
\* if filters.max_x and prop.get(x, float("inf")) > filters.max_x: return False
\* The minimum and maximum tests of one numeric field: the missing field is
\* 0 against the minimum and infinite against the maximum.
RangeOk(prop, filters, field, min_key, max_key) ==
    /\ ~(TruthyNum(filters, min_key) /\ Get(prop, field, 0) < filters[min_key])
    /\ ~(TruthyNum(filters, max_key)
            /\ (Has(prop, field) => prop[field] > filters[max_key]))

\* An areas test that compares without case
AreasOkIgnoringCase(prop, filters) ==
    ~(TruthySeq(filters, "areas")
         /\ Lower(Get(prop, "area", None))
                \notin {Lower(a) : a \in Elems(filters.areas)})

\* if filters.areas and prop.get("area") not in filters.areas: return False
AreasOk(prop, filters) ==
    ~(TruthySeq(filters, "areas")
         /\ Get(prop, "area", None) \notin Elems(filters.areas))

TypesOk(prop, filters) ==
    ~(TruthySeq(filters, "property_types")
         /\ Get(prop, "property_type", None) \notin Elems(filters.property_types))

FeaturesOk(prop, filters) ==
    TruthySeq(filters, "features") =>
        \A i \in 1..Len(filters.features) :
            HasFeature(Get(prop, "features", <<>>), filters.features[i])

\* _matches_filter(prop, filters): True unless one of its tests returns False
matches_filter(prop, filters) ==
    /\ RangeOk(prop, filters, "price", "min_price", "max_price")
    /\ RangeOk(prop, filters, "bedrooms", "min_bedrooms", "max_bedrooms")
    /\ RangeOk(prop, filters, "bathrooms", "min_bathrooms", "max_bathrooms")
    /\ AreasOk(prop, filters)
    /\ TypesOk(prop, filters)
    /\ RangeOk(prop, filters, "square_feet", "min_sqft", "max_sqft")
    /\ FeaturesOk(prop, filters)

RECURSIVE FilterLoop(_, _, _, _)
\* the loop of filter_properties from its i-th property on
FilterLoop(properties, filters, i, filtered) ==
    IF i > Len(properties) THEN filtered
    ELSE FilterLoop(properties, filters, i + 1,
                    IF matches_filter(properties[i], filters)
                    THEN Append(filtered, properties[i])
                    ELSE filtered)

\* A loop that puts each match in front of the earlier ones
RECURSIVE FilterLoopPrepends(_, _, _, _)
FilterLoopPrepends(properties, filters, i, filtered) ==
    IF i > Len(properties) THEN filtered
    ELSE FilterLoopPrepends(properties, filters, i + 1,
                            IF matches_filter(properties[i], filters)
                            THEN <<properties[i]>> \o filtered
                            ELSE filtered)

filter_properties_reversed(filters) ==
    FilterLoopPrepends(get_all_properties, filters, 1, <<>>)

filter_properties(filters) == FilterLoop(get_all_properties, filters, 1, <<>>)

\* the text search_properties looks the query up in
SearchableText(prop) ==
    Lower(Join(<<" ">>,
               <<Get(prop, "address", <<>>), Get(prop, "description", <<>>),
                 Get(prop, "area", <<>>),
                 Join(<<" ">>, Get(prop, "features", <<>>)),
                 Get(prop, "property_type", <<>>), Get(prop, "style", <<>>)>>))

search_properties(query) ==
    SelectSeq(get_all_properties,
              LAMBDA prop : IsSubstr(Lower(query), SearchableText(prop)))

get_properties_by_agent(agent_id) ==
    SelectSeq(get_all_properties,
              LAMBDA prop : Get(prop, "agent_id", None) = agent_id)

get_properties_by_area(area) == InArea(get_all_properties, area)

\* Agent operations

get_all_agents == Get(docs["agents"], "agents", <<>>)

get_agent_by_id(agent_id) ==
    LET hits == {i \in 1..Len(get_all_agents) :
                    Get(get_all_agents[i], "id", None) = agent_id}
    IN  IF hits = {} THEN NoneDict ELSE get_all_agents[SetMin(hits)]

AgentText(agent) ==
    Lower(Join(<<" ">>,
               <<Get(agent, "name", <<>>),
                 Join(<<" ">>, Get(agent, "specializations", <<>>)),
                 Join(<<" ">>, Get(agent, "expertise_areas", <<>>)),
                 Get(agent, "bio", <<>>)>>))

search_agents(query) ==
    SelectSeq(get_all_agents,
              LAMBDA agent : IsSubstr(Lower(query), AgentText(agent)))

calculate_avg_days_on_market(sales) ==
    IF sales = <<>> THEN Div(0, 1)
    ELSE Div(Sum(sales, "days_on_market", 1), Len(sales))

calculate_avg_rating(testimonials) ==
    IF testimonials = <<>> THEN Div(0, 1)
    ELSE Div(Sum(testimonials, "rating", 1), Len(testimonials))

get_agent_performance(agent_id) ==
    LET agent == get_agent_by_id(agent_id)
        recent_sales == Get(agent, "recent_sales", <<>>)
    IN  IF Falsy(agent) THEN EmptyDoc
        ELSE [agent_id |-> agent_id,
              name |-> Get(agent, "name", None),
              active_listings |-> Len(get_properties_by_agent(agent_id)),
              recent_sales_count |-> Len(recent_sales),
              avg_days_on_market |-> calculate_avg_days_on_market(recent_sales),
              total_sales_volume |-> Sum(recent_sales, "sale_price", 1),
              specializations |-> Get(agent, "specializations", <<>>),
              client_rating |->
                  calculate_avg_rating(Get(agent, "client_testimonials", <<>>))]

\* Market operations

get_market_overview == Get(docs["market"], "market_overview", EmptyDoc)

get_area_market_data(area) ==
    Get(Get(docs["market"], "area_performance", EmptyDoc), area, NoneDict)

get_price_analytics == Get(docs["market"], "price_analytics", EmptyDoc)

get_investment_opportunities ==
    Get(docs["market"], "investment_opportunities", EmptyDoc)

compare_areas(areas) ==
    LET area_performance == Get(docs["market"], "area_performance", EmptyDoc)
    IN  [area \in Elems(areas) \cap DOMAIN area_performance |->
            area_performance[area]]

\* Client operations

get_all_clients == Get(docs["clients"], "clients", <<>>)

get_client_by_id(client_id) ==
    LET hits == {i \in 1..Len(get_all_clients) :
                    Get(get_all_clients[i], "id", None) = client_id}
    IN  IF hits = {} THEN NoneDict ELSE get_all_clients[SetMin(hits)]

get_clients_by_agent(agent_id) ==
    SelectSeq(get_all_clients,
              LAMBDA client : Get(client, "agent_id", None) = agent_id)

\* PropertyFilter(min_price=budget.get("min"), max_price=budget.get("max"),
\*                areas=preferences.get("desired_areas"),
\*                property_types=[property_type] if property_type else None)
ClientFilter(client) ==
    LET preferences == Get(client, "preferences", EmptyDoc)
        budget == Get(preferences, "budget_range", EmptyDoc)
        set == {k \in {"min_price", "max_price", "areas", "property_types"} :
                   CASE k = "min_price" -> Has(budget, "min")
                     [] k = "max_price" -> Has(budget, "max")
                     [] k = "areas" -> Has(preferences, "desired_areas")
                     [] k = "property_types" ->
                            TruthySeq(preferences, "property_type")}
    IN  [k \in set |->
            CASE k = "min_price" -> budget.min
              [] k = "max_price" -> budget.max
              [] k = "areas" -> preferences.desired_areas
              [] k = "property_types" -> <<preferences.property_type>>]

match_clients_to_properties(client_id) ==
    LET client == get_client_by_id(client_id)
    IN  IF Falsy(client) \/ Get(client, "type", None) # Buyer THEN <<>>
        ELSE filter_properties(ClientFilter(client))

\* Amenities operations

get_schools_by_area(area) ==
    LET schools_data == Get(docs["amenities"], "schools", EmptyDoc)
    IN  Get(schools_data, "elementary_schools", <<>>)
            \o Get(schools_data, "middle_schools", <<>>)
            \o Get(schools_data, "high_schools", <<>>)
            \o Get(schools_data, "private_schools", <<>>)

get_amenities_by_type(amenity_type) ==
    Get(docs["amenities"], amenity_type, EmptyDoc)

\* isinstance(shops, list), on a value of the shopping mapping
IsList(shops) == Has(shops, "list")

get_area_amenities(area) ==
    LET parks == InArea(Get(Get(docs["amenities"], "parks_and_recreation",
                                EmptyDoc), "parks", <<>>), area)
        shopping == Get(docs["amenities"], "shopping", EmptyDoc)
        lists == {t \in DOMAIN shopping : IsList(shopping[t])}
    IN  IF ~parks.ok THEN parks
        ELSE IF \E t \in lists : ~InArea(shopping[t].list, area).ok
        THEN Raise("AttributeError")
        ELSE Ok([schools |-> get_schools_by_area(area),
                 parks |-> parks.val,
                 shopping |->
                     [t \in lists |-> InArea(shopping[t].list, area).val]])

\* Transaction operations

get_recent_sales == Get(docs["transactions"], "recent_sales", <<>>)

get_sales_by_area(area) == InArea(get_recent_sales, area)

get_sales_by_agent(agent_id) ==
    SelectSeq(get_recent_sales,
              LAMBDA sale : Get(sale, "agent_id", None) = agent_id)

AllAreas == <<"A", "l", "l", " ", "A", "r", "e", "a", "s">>

calculate_market_trends(area) ==
    LET given == area # None /\ area # <<>>
        sales == IF given THEN get_sales_by_area(area) ELSE Ok(get_recent_sales)
    IN  IF ~sales.ok THEN sales
        ELSE IF sales.val = <<>> THEN Ok(EmptyDoc)
        ELSE Ok([total_sales |-> Len(sales.val),
                 average_sale_price |->
                     Div(Sum(sales.val, "sale_price", 1), Len(sales.val)),
                 average_days_on_market |->
                     Div(Sum(sales.val, "days_on_market", 1), Len(sales.val)),
                 average_price_per_sqft |->
                     Div(Sum(sales.val, "price_per_sqft", 1), Len(sales.val)),
                 area |-> IF given THEN area ELSE AllAreas])

\* Area operations

get_all_areas == Get(docs["areas"], "areas", <<>>)

\* get_area_info(area_name): area_name.lower() is evaluated for each record,
\* and raises when area_name is None.
get_area_info(area_name) ==
    LET hits == {i \in 1..Len(get_all_areas) :
                    Lower(Get(get_all_areas[i], "name", <<>>)) = Lower(area_name)}
    IN  IF get_all_areas = <<>> THEN Ok(NoneDict)
        ELSE IF area_name = None THEN Raise("AttributeError")
        ELSE IF hits = {} THEN Ok(NoneDict)
        ELSE Ok(get_all_areas[SetMin(hits)])

get_city_overview ==
    [city_name |-> Get(docs["areas"], "city_name", None),
     state |-> Get(docs["areas"], "state", None),
     population |-> Get(docs["areas"], "population", None),
     median_income |-> Get(docs["areas"], "median_income", None),
     school_districts |-> Get(docs["areas"], "school_districts", <<>>),
     market_trends |-> Get(docs["areas"], "market_trends", EmptyDoc)]

\* Cross-referencing and analytics

\* The first exception among the calls that build a report, in their order.
FirstRaise(calls) ==
    LET bad == {i \in 1..Len(calls) : ~calls[i].ok}
    IN  calls[SetMin(bad)]

AllOk(calls) == \A i \in 1..Len(calls) : calls[i].ok

get_comprehensive_area_report(area) ==
    LET calls == <<get_area_info(area), get_properties_by_area(area),
                   get_sales_by_area(area), get_area_amenities(area),
                   calculate_market_trends(area)>>
    IN  IF ~AllOk(calls) THEN FirstRaise(calls)
        ELSE Ok([area_info |-> calls[1].val,
                 market_data |-> get_area_market_data(area),
                 active_properties |-> calls[2].val,
                 recent_sales |-> calls[3].val,
                 amenities |-> calls[4].val,
                 market_trends |-> calls[5].val])

get_agent_dashboard(agent_id) ==
    LET agent == get_agent_by_id(agent_id)
    IN  IF Falsy(agent) THEN EmptyDoc
        ELSE [agent_info |-> agent,
              performance |-> get_agent_performance(agent_id),
              active_listings |-> get_properties_by_agent(agent_id),
              clients |-> get_clients_by_agent(agent_id),
              recent_sales |-> get_sales_by_agent(agent_id)]

get_property_insights(property_id) ==
    LET prop == get_property_by_id(property_id)
        area == Get(prop, "area", None)
        calls == <<get_area_info(area), get_sales_by_area(area),
                   get_area_amenities(area)>>
    IN  IF Falsy(prop) THEN Ok(EmptyDoc)
        ELSE IF ~AllOk(calls) THEN FirstRaise(calls)
        ELSE Ok([property |-> prop,
                 agent |-> get_agent_by_id(Get(prop, "agent_id", None)),
                 area_info |-> calls[1].val,
                 area_market_data |-> get_area_market_data(area),
                 comparable_sales |-> calls[2].val,
                 area_amenities |-> calls[3].val])

\* ------------------------------------------------------ the store's life

Call(name, args) == [name |-> name, args |-> args]

\* RealEstateDataManager(data_dir), on file system d
InitOn(d) ==
    LET r == Construct(d)
    IN  /\ disk = d
        /\ cache = r.cache
        /\ docs = r.docs
        /\ ret = r.ret
        /\ lastRead = r.read
        /\ lastOp = Call("__init__", <<>>)
        /\ edits = 0

\* Someone rewrites, corrupts or removes one of the data files, which has
\* happened fewer than bound times.
WriteFileWithin(bound, attr, kind) ==
    /\ edits < bound
    /\ disk[PathOf(attr)] # FileFor(attr, kind)
    /\ disk' = [disk EXCEPT ![PathOf(attr)] = FileFor(attr, kind)]
    /\ edits' = edits + 1
    /\ lastOp' = Call("write_file", <<PathOf(attr)>>)
    /\ ret' = Ok(None)
    /\ lastRead' = {}
    /\ UNCHANGED <<cache, docs>>

WriteFile(attr, kind) == WriteFileWithin(MaxEdits, attr, kind)

\* refresh_data()
RefreshData ==
    /\ Alive
    /\ LET r == RefreshResult(cache, docs, disk)
       IN  /\ cache' = r.cache
           /\ docs' = r.docs
           /\ ret' = r.ret
           /\ lastRead' = r.read
    /\ lastOp' = Call("refresh_data", <<>>)
    /\ UNCHANGED <<disk, edits>>

\* _load_json_file(path), called again on a constructed store
CallLoadJsonFile(attr) ==
    /\ Alive
    /\ LET r == LoadJsonFile(cache, disk, PathOf(attr))
       IN  /\ cache' = r.cache
           /\ ret' = r.ret
           /\ lastRead' = r.read
    /\ lastOp' = Call("_load_json_file", <<PathOf(attr)>>)
    /\ UNCHANGED <<disk, docs, edits>>

Init == \E d \in LifecycleDisks : InitOn(d)

Next ==
    \/ \E a \in AttrSet, k \in FileKinds : WriteFile(a, k)
    \/ RefreshData

Spec == Init /\ [][Next]_vars

\* A store on healthy files, whose files then change behind the cache.
MemoInit == InitOn(HealthyDisk)

MemoNext ==
    \/ \E a \in AttrSet, k \in FileKinds : WriteFileWithin(MaxStale, a, k)
    \/ RefreshData
    \/ \E a \in AttrSet : CallLoadJsonFile(a)

MemoSpec == MemoInit /\ [][MemoNext]_vars

\* ------------------------------------------------------ calling the queries

QueryNames ==
    {"get_all_properties", "get_property_by_id", "filter_properties",
     "search_properties", "get_properties_by_agent", "get_properties_by_area",
     "get_all_agents", "get_agent_by_id", "search_agents",
     "get_agent_performance", "get_market_overview", "get_area_market_data",
     "get_price_analytics", "get_investment_opportunities", "compare_areas",
     "get_all_clients", "get_client_by_id", "get_clients_by_agent",
     "match_clients_to_properties", "get_schools_by_area",
     "get_amenities_by_type", "get_area_amenities", "get_recent_sales",
     "get_sales_by_area", "get_sales_by_agent", "calculate_market_trends",
     "get_all_areas", "get_area_info", "get_city_overview",
     "get_comprehensive_area_report", "get_agent_dashboard",
     "get_property_insights"}

\* A query method called with args that ends as result: it reads the
\* documents and assigns to no attribute of the store.
Query(name, args, result) ==
    /\ Alive
    /\ lastOp' = Call(name, args)
    /\ ret' = result
    /\ lastRead' = {}
    /\ UNCHANGED <<disk, cache, docs, edits>>

GetAllProperties == Query("get_all_properties", <<>>, Ok(get_all_properties))
GetPropertyById(id) ==
    Query("get_property_by_id", <<id>>, Ok(get_property_by_id(id)))
FilterProperties(filters) ==
    Query("filter_properties", <<filters>>, Ok(filter_properties(filters)))
SearchProperties(query) ==
    Query("search_properties", <<query>>, Ok(search_properties(query)))
GetPropertiesByAgent(id) ==
    Query("get_properties_by_agent", <<id>>, Ok(get_properties_by_agent(id)))
GetPropertiesByArea(area) ==
    Query("get_properties_by_area", <<area>>, get_properties_by_area(area))
GetAllAgents == Query("get_all_agents", <<>>, Ok(get_all_agents))
GetAgentById(id) == Query("get_agent_by_id", <<id>>, Ok(get_agent_by_id(id)))
SearchAgents(query) == Query("search_agents", <<query>>, Ok(search_agents(query)))
GetAgentPerformance(id) ==
    Query("get_agent_performance", <<id>>, Ok(get_agent_performance(id)))
GetMarketOverview == Query("get_market_overview", <<>>, Ok(get_market_overview))
GetAreaMarketData(area) ==
    Query("get_area_market_data", <<area>>, Ok(get_area_market_data(area)))
GetPriceAnalytics == Query("get_price_analytics", <<>>, Ok(get_price_analytics))
GetInvestmentOpportunities ==
    Query("get_investment_opportunities", <<>>, Ok(get_investment_opportunities))
CompareAreas(areas) == Query("compare_areas", <<areas>>, Ok(compare_areas(areas)))
GetAllClients == Query("get_all_clients", <<>>, Ok(get_all_clients))
GetClientById(id) == Query("get_client_by_id", <<id>>, Ok(get_client_by_id(id)))
GetClientsByAgent(id) ==
    Query("get_clients_by_agent", <<id>>, Ok(get_clients_by_agent(id)))
MatchClientsToProperties(id) ==
    Query("match_clients_to_properties", <<id>>,
          Ok(match_clients_to_properties(id)))
GetSchoolsByArea(area) ==
    Query("get_schools_by_area", <<area>>, Ok(get_schools_by_area(area)))
GetAmenitiesByType(type) ==
    Query("get_amenities_by_type", <<type>>, Ok(get_amenities_by_type(type)))

\* get_area_amenities, had it kept its result in self.amenities
GetAreaAmenitiesStores(area) ==
    /\ Alive
    /\ lastOp' = Call("get_area_amenities", <<area>>)
    /\ ret' = get_area_amenities(area)
    /\ lastRead' = {}
    /\ docs' = [docs EXCEPT !["amenities"] =
                   IF ret'.ok THEN ret'.val ELSE docs["amenities"]]
    /\ UNCHANGED <<disk, cache, edits>>

GetAreaAmenities(area) ==
    Query("get_area_amenities", <<area>>, get_area_amenities(area))
GetRecentSales == Query("get_recent_sales", <<>>, Ok(get_recent_sales))
GetSalesByArea(area) ==
    Query("get_sales_by_area", <<area>>, get_sales_by_area(area))
GetSalesByAgent(id) ==
    Query("get_sales_by_agent", <<id>>, Ok(get_sales_by_agent(id)))
CalculateMarketTrends(area) ==
    Query("calculate_market_trends", <<area>>, calculate_market_trends(area))
GetAllAreas == Query("get_all_areas", <<>>, Ok(get_all_areas))
GetAreaInfo(name) == Query("get_area_info", <<name>>, get_area_info(name))
GetCityOverview == Query("get_city_overview", <<>>, Ok(get_city_overview))
GetComprehensiveAreaReport(area) ==
    Query("get_comprehensive_area_report", <<area>>,
          get_comprehensive_area_report(area))
GetAgentDashboard(id) ==
    Query("get_agent_dashboard", <<id>>, Ok(get_agent_dashboard(id)))
GetPropertyInsights(id) ==
    Query("get_property_insights", <<id>>, get_property_insights(id))

\* ---------------------------------------------- the arguments of the calls

Unknown == <<"z">>
PropertyIds == {IdP1, Unknown}
AgentIds == {IdG1, Unknown}
ClientIds == {IdC1, IdC2, Unknown}
AreaNames == {Dn, dn, <<>>}
Queries == {gar, <<"D", "N">>}

\* PropertyFilter objects: a field that is None is left out.
SomeFilters == {EmptyDoc, [max_price |-> 1, areas |-> <<Dn>>]}

NumericKeys ==
    {"min_price", "max_price", "min_bedrooms", "max_bedrooms",
     "min_bathrooms", "max_bathrooms", "min_sqft", "max_sqft"}

\* PropertyFilter objects with one constraint set, with several, with none
FilterArgs ==
    {(k :> v) : k \in NumericKeys, v \in {-1, 0, 1, 2}}
        \cup {[areas |-> l] : l \in {<<>>, <<Dn>>, <<dn, Up>>}}
        \cup {[property_types |-> <<House>>]}
        \cup {[features |-> l] : l \in {<<gar>>, <<gar, Pool>>}}
        \cup {EmptyDoc, [min_price |-> 1, max_price |-> 2],
              [min_price |-> 1, areas |-> <<Dn>>],
              [max_price |-> 2, areas |-> <<Dn>>, property_types |-> <<House>>]}

\* ------------------------------------------- stores with up to MaxRecords

RECURSIVE SeqsUpTo(_, _)
SeqsUpTo(S, n) ==
    IF n = 0 THEN {<<>>}
    ELSE LET shorter == SeqsUpTo(S, n - 1)
         IN  shorter \cup {Append(q, x) : q \in {t \in shorter : Len(t) = n - 1},
                                          x \in S}

Tagged(family) ==
    {t \in AttrSet \X (1..Len(FilterListings)) :
        t[2] <= Len(PiecesIn(family, t[1]))}

\* The file of attribute attr when the data set holds the records placed:
\* no file when it holds none for attr.
FileOf(family, attr, placed) ==
    LET mine == SelectSeq(placed, LAMBDA t : t[1] = attr)
    IN  IF mine = <<>> THEN Missing
        ELSE Json(DocOf(attr, [i \in 1..Len(mine) |->
                                  PiecesIn(family, attr)[mine[i][2]]]))

\* The file systems that hold up to MaxRecords records of a family
DisksOf(family) ==
    {[p \in Paths |-> FileOf(family, AttrOf(p), placed)] :
        placed \in SeqsUpTo(Tagged(family), MaxRecords)}

QueryDisks == DisksOf("query")

FilterDisks == DisksOf("filter")

LookupDisks == DisksOf("lookup")

QueryInit == \E d \in QueryDisks : InitOn(d)

QueryNext ==
    \/ GetAllProperties
    \/ \E id \in PropertyIds : GetPropertyById(id)
    \/ \E f \in SomeFilters : FilterProperties(f)
    \/ \E q \in Queries : SearchProperties(q)
    \/ \E id \in AgentIds : GetPropertiesByAgent(id)
    \/ \E a \in AreaNames : GetPropertiesByArea(a)
    \/ GetAllAgents
    \/ \E id \in AgentIds : GetAgentById(id)
    \/ \E q \in Queries : SearchAgents(q)
    \/ \E id \in AgentIds : GetAgentPerformance(id)
    \/ GetMarketOverview
    \/ \E a \in AreaNames : GetAreaMarketData(a)
    \/ GetPriceAnalytics
    \/ GetInvestmentOpportunities
    \/ \E l \in {<<Dn, Unknown>>, <<Up>>} : CompareAreas(l)
    \/ GetAllClients
    \/ \E id \in ClientIds : GetClientById(id)
    \/ \E id \in AgentIds : GetClientsByAgent(id)
    \/ \E id \in ClientIds : MatchClientsToProperties(id)
    \/ \E a \in {Dn} : GetSchoolsByArea(a)
    \/ \E t \in {"schools", "healthcare"} : GetAmenitiesByType(t)
    \/ \E a \in AreaNames : GetAreaAmenities(a)
    \/ GetRecentSales
    \/ \E a \in AreaNames : GetSalesByArea(a)
    \/ \E id \in AgentIds : GetSalesByAgent(id)
    \/ \E a \in AreaNames \cup {None} : CalculateMarketTrends(a)
    \/ GetAllAreas
    \/ \E a \in AreaNames : GetAreaInfo(a)
    \/ GetCityOverview
    \/ \E a \in AreaNames : GetComprehensiveAreaReport(a)
    \/ \E id \in AgentIds : GetAgentDashboard(id)
    \/ \E id \in PropertyIds : GetPropertyInsights(id)
    \/ RefreshData

QuerySpec == QueryInit /\ [][QueryNext]_vars

FilterInit == \E d \in FilterDisks : InitOn(d)

FilterNext ==
    \/ GetAllProperties
    \/ \E f \in FilterArgs : FilterProperties(f)
    \/ \E id \in ClientIds : MatchClientsToProperties(id)

FilterSpec == FilterInit /\ [][FilterNext]_vars


LookupInit == \E d \in LookupDisks : InitOn(d)

LookupNext ==
    \/ \E id \in {IdP1, IdP2, Unknown, <<>>} : GetPropertyById(id)
    \/ \E id \in {IdG1, IdG2, Unknown, <<>>} : GetAgentById(id)
    \/ \E id \in {IdC1, IdC2, Unknown, <<>>} : GetClientById(id)
    \/ \E name \in {Dn, dn, <<"D", "N">>, Up, <<>>} : GetAreaInfo(name)

LookupSpec == LookupInit /\ [][LookupNext]_vars

\* ------------------------------------------------------------- the claims

\* What the file of attribute a holds for a load: its document, or the empty
\* mapping when there is no file or the file is not valid JSON.
FileContent(a) ==
    IF disk[PathOf(a)].kind = "json" THEN disk[PathOf(a)].data ELSE EmptyDoc

\* C1: a load (construction or refresh) never fails on a file that is missing
\* or is not valid JSON: the call returns, that document is the empty mapping
\* and every other document is loaded from its own file.
LoadSurvivesBadFiles ==
    lastOp.name \in {"__init__", "refresh_data"} =>
        /\ ret.ok
        /\ \A a \in AttrSet : docs[a] = FileContent(a)

\* A refresh left some documents with the reloaded content and others with
\* stale pre-refresh content.
HalfRefreshed ==
    \E a, b \in AttrSet :
        /\ docs'[a] # docs[a]
        /\ docs'[a] = FileContent(a)
        /\ docs'[b] = docs[b]
        /\ docs'[b] # FileContent(b)

\* C2: refresh clears the cache and replaces the documents all at once: it
\* never leaves some documents reloaded and others stale, and after it every
\* document is the content of its file (the empty mapping for a file that is
\* missing or malformed).
RefreshReplacesAllAtOnce ==
    [][lastOp'.name = "refresh_data" =>
          /\ ~HalfRefreshed
          /\ \A a \in AttrSet : docs'[a] = FileContent(a)]_vars

\* C10: after construction and after every refresh the cache holds exactly
\* the paths whose load succeeded, each such document is the cached value,
\* and a document whose load failed is the empty mapping, not memoized.
CacheAgreesWithDocuments ==
    (Alive /\ lastOp.name \in {"__init__", "refresh_data"}) =>
        \A a \in AttrSet :
            IF disk[PathOf(a)].kind = "json"
            THEN PathOf(a) \in DOMAIN cache /\ docs[a] = cache[PathOf(a)]
            ELSE PathOf(a) \notin DOMAIN cache /\ docs[a] = EmptyDoc

QueriesNeverRaise == lastOp.name \in QueryNames => ret.ok

\* C5: a query leaves the seven documents and the cache as they were.
QueriesLeaveStoreUnchanged ==
    [][lastOp'.name \in QueryNames => docs' = docs /\ cache' = cache]_vars

\* A query has answered from a loaded amenities document.
AmenitiesAnswered ==
    /\ lastOp.name = "get_area_amenities"
    /\ ret.ok
    /\ ret.val.parks # <<>>
    /\ docs["amenities"] # EmptyDoc

\* The field of a listing and the filter fields that bound it
Ranges ==
    {<<"price", "min_price", "max_price">>,
     <<"bedrooms", "min_bedrooms", "max_bedrooms">>,
     <<"bathrooms", "min_bathrooms", "max_bathrooms">>,
     <<"square_feet", "min_sqft", "max_sqft">>}

Returned == Elems(ret.val)

\* C6 as stated: a listing without the field is excluded by every filter
\* whose maximum is set, whatever its value, and by every filter whose
\* minimum is set and is not 0.
MissingFieldFailsEverySetBound ==
    lastOp.name = "filter_properties" =>
        \A r \in Ranges, prop \in Elems(get_all_properties) :
            ~Has(prop, r[1]) =>
                /\ Has(lastOp.args[1], r[3]) => prop \notin Returned
                /\ (Has(lastOp.args[1], r[2]) /\ lastOp.args[1][r[2]] # 0) =>
                       prop \notin Returned

\* C6, amended: a listing without the field is excluded by every filter whose
\* maximum is set and is not 0, and by every filter whose minimum is greater
\* than 0; a filter that sets nothing but a maximum of 0, or a minimum that
\* is 0 or negative, returns it.
MissingFieldRule ==
    lastOp.name = "filter_properties" =>
        \A r \in Ranges, prop \in Elems(get_all_properties) :
            ~Has(prop, r[1]) =>
                /\ TruthyNum(lastOp.args[1], r[3]) => prop \notin Returned
                /\ (Has(lastOp.args[1], r[2]) /\ lastOp.args[1][r[2]] > 0) =>
                       prop \notin Returned
                /\ (/\ DOMAIN lastOp.args[1] \subseteq {r[2], r[3]}
                    /\ ~TruthyNum(lastOp.args[1], r[3])
                    /\ ~(Has(lastOp.args[1], r[2]) /\ lastOp.args[1][r[2]] > 0))
                       => prop \in Returned

\* A maximum price kept a priced listing and dropped one without a price.
UnpricedListingDropped ==
    /\ lastOp.name = "filter_properties"
    /\ TruthyNum(lastOp.args[1], "max_price")
    /\ Returned # {}
    /\ \E prop \in Elems(get_all_properties) :
           ~Has(prop, "price") /\ prop \notin Returned

RECURSIVE IsSubseq(_, _)
\* Whether short is long with some of its elements left out.
IsSubseq(short, long) ==
    IF short = <<>> THEN TRUE
    ELSE IF long = <<>> THEN FALSE
    ELSE IF Head(short) = Head(long) THEN IsSubseq(Tail(short), Tail(long))
    ELSE IsSubseq(short, Tail(long))

\* C7: the result of filter_properties is get_all_properties() with some
\* records left out, none added, repeated or moved, and it is all of
\* get_all_properties() when the filter sets no constraint.
FilterGivesSubsequence ==
    lastOp.name = "filter_properties" =>
        /\ IsSubseq(ret.val, get_all_properties)
        /\ DOMAIN lastOp.args[1] = {} => ret.val = get_all_properties

\* A filter that sets a constraint returned two different listings, in the
\* order of get_all_properties().
FilterKeptTwoInOrder ==
    /\ lastOp.name = "filter_properties"
    /\ DOMAIN lastOp.args[1] # {}
    /\ Len(ret.val) = 2
    /\ ret.val[1] # ret.val[2]
    /\ ret.val = get_all_properties

HasId(rec, key) == Has(rec, "id") /\ rec.id = key
HasName(rec, key) == Has(rec, "name") /\ Lower(rec.name) = Lower(key)
HasNameOrNone(rec, key) ==
    IF Has(rec, "name") THEN Lower(rec.name) = Lower(key) ELSE key = <<>>

\* The record of list at the least of the positions hits, NoneDict when
\* there is none.
FirstAt(list, hits) ==
    IF hits = {} THEN NoneDict ELSE list[SetMin(hits)]

WithId(list, key) == {i \in 1..Len(list) : HasId(list[i], key)}

IdLookupsReturnFirstMatch ==
    /\ lastOp.name = "get_property_by_id" =>
           ret = Ok(FirstAt(get_all_properties,
                            WithId(get_all_properties, lastOp.args[1])))
    /\ lastOp.name = "get_agent_by_id" =>
           ret = Ok(FirstAt(get_all_agents,
                            WithId(get_all_agents, lastOp.args[1])))
    /\ lastOp.name = "get_client_by_id" =>
           ret = Ok(FirstAt(get_all_clients,
                            WithId(get_all_clients, lastOp.args[1])))

\* C8 as stated: each lookup returns the first record in document order that
\* has the key (for get_area_info the name, compared without case), and
\* not-found when no record has it.
LookupsReturnFirstWithKey ==
    /\ IdLookupsReturnFirstMatch
    /\ lastOp.name = "get_area_info" =>
           ret = Ok(FirstAt(get_all_areas,
                            {i \in 1..Len(get_all_areas) :
                                HasName(get_all_areas[i], lastOp.args[1])}))

\* C8, amended: the same, where for get_area_info an area record without a
\* name counts as having the empty name, so that the empty key finds it.
LookupsReturnFirstMatch ==
    /\ IdLookupsReturnFirstMatch
    /\ lastOp.name = "get_area_info" =>
           ret = Ok(FirstAt(get_all_areas,
                            {i \in 1..Len(get_all_areas) :
                                HasNameOrNone(get_all_areas[i],
                                              lastOp.args[1])}))

\* A lookup by name met two different records whose names differ in case
\* only, both matching the key, and returned the first.
FirstOfTwoAreas ==
    /\ lastOp.name = "get_area_info"
    /\ Len(get_all_areas) = 2
    /\ get_all_areas[1] # get_all_areas[2]
    /\ HasName(get_all_areas[1], lastOp.args[1])
    /\ HasName(get_all_areas[2], lastOp.args[1])
    /\ get_all_areas[1].name # get_all_areas[2].name
    /\ ret = Ok(get_all_areas[1])

\* Every returned listing has an area that is, letter for letter, in areas.
AllInAreas(areas) ==
    \A prop \in Returned : Has(prop, "area") /\ prop.area \in Elems(areas)

\* The desired_areas of the client a match was asked for
DesiredAreas(client_id) ==
    Get(get_client_by_id(client_id), "preferences", EmptyDoc)

\* C9 as stated: when the filter provides an areas list, so also when
\* match_clients_to_properties passes the client's desired_areas, every
\* returned listing has an area in the list, by exact equality.
AreasListIsRespected ==
    /\ (lastOp.name = "filter_properties" /\ Has(lastOp.args[1], "areas")) =>
           AllInAreas(lastOp.args[1].areas)
    /\ (lastOp.name = "match_clients_to_properties"
           /\ Has(DesiredAreas(lastOp.args[1]), "desired_areas")) =>
           AllInAreas(DesiredAreas(lastOp.args[1]).desired_areas)

\* C9, amended: the same for an areas list that is not empty; an empty list
\* is skipped like an unset one.
NonEmptyAreasListIsRespected ==
    /\ (lastOp.name = "filter_properties"
           /\ TruthySeq(lastOp.args[1], "areas")) =>
           AllInAreas(lastOp.args[1].areas)
    /\ (lastOp.name = "match_clients_to_properties"
           /\ TruthySeq(DesiredAreas(lastOp.args[1]), "desired_areas")) =>
           AllInAreas(DesiredAreas(lastOp.args[1]).desired_areas)

\* An areas list kept the listing of a named area and left out one whose area
\* differs from it in case only.
AreasKeptExactMatch ==
    /\ lastOp.name = "filter_properties"
    /\ TruthySeq(lastOp.args[1], "areas")
    /\ Returned # {}
    /\ \E prop \in Elems(get_all_properties) :
           /\ prop \notin Returned
           /\ Has(prop, "area")
           /\ Lower(prop.area) \in {Lower(a) : a \in Elems(lastOp.args[1].areas)}

=============================================================================
